---- MODULE Spec2Model ----
(***************************************************************************)
(* Model of gemini_cli_sdk: the JSON parser (JSONParser), the orchestrating *)
(* client (InternalClient.process_query) and the public query() wrapper.   *)
(*                                                                         *)
(* Text is modelled as the sequence of its lines (what str.split("\n")     *)
(* returns).  A line is a record of the lexical features the parser reads: *)
(*   head   - the first non-blank character: "brace" for '{', "bracket"    *)
(*            for '[', "other" for anything else, "blank" if there is none *)
(*   indent - whether whitespace precedes that character                   *)
(*   valid  - whether json.loads of the line alone succeeds                *)
(*   data   - the decoded object (a function from its keys), if valid      *)
(*   pos    - "line" for a line that stands alone; "open", "inner" and     *)
(*            "close" for the lines of one pretty-printed object: its '{', *)
(*            its members, its '}'                                         *)
(***************************************************************************)
EXTENDS Integers, Sequences, FiniteSets, TLC

VARIABLES
    raw_output,   \* stdout handed to JSONParser.parse
    stderr,       \* stderr handed to JSONParser.parse
    reads,        \* the clock values datetime.now() returned during that parse
    ret,          \* what parse returned or raised
    ppc,          \* "ready" before a direct call of parse, "returned" after it
    again,        \* what a second call of parse on the same inputs read and returned
    environ,      \* os.environ["GEMINI_PARSER_STRATEGY"], None when it is not set
    llm,          \* how LLMParser() ends where it is called: NoFault, or what it raises
    args,         \* the transport and parser passed to InternalClient(...)
    client,       \* the transport and parser of the InternalClient
    warnings,     \* what _create_parser logged
    cpc,          \* "new" before InternalClient.__init__, "constructed" or "raised" after it
    qs,           \* the concurrent queries: for each, the state of its query() call
    instances,    \* how many SubprocessCLITransport objects were constructed
    sdk,          \* os.environ["GEMINI_CODE_SDK"], None when it is not set
    pc,           \* where process_query is suspended
    via,          \* the generator the consumer iterates: process_query or query
    prompt, options,
    yielded,      \* the messages delivered to the consumer so far
    idx,          \* how many parsed messages the for loop has yielded
    fault,        \* the fault connect, execute or parse raised in this run
    pending,      \* the exception in flight while the finally clause runs
    outcome,      \* how the run ended for the caller
    calls,        \* connect, execute, parse and disconnect, as invoked
    yieldedAtDisconnect,  \* Len(yielded) when disconnect was invoked
    consumer,     \* "iterating" or "abandoned"
    outer         \* the query() generator: "none", "open" or "closed"

parserVars == <<raw_output, stderr, reads, ret, ppc, again>>
clientVars == <<pc, via, prompt, options, yielded, idx, fault, pending, outcome,
                calls, yieldedAtDisconnect, consumer, outer>>
createVars == <<environ, llm, args, client, warnings, cpc>>
concVars == <<qs, instances, sdk>>
vars == <<parserVars, clientVars, createVars, concVars>>

(***************************************************************************)
(* Bounds                                                                  *)
(***************************************************************************)
MaxLines == 3
MaxClock == 1

(***************************************************************************)
(* Python values                                                           *)
(***************************************************************************)
None == "<None>"
Truthy(v) == v # None /\ v # ""
EmptyDict == [k \in {} |-> 0]
Get(d, key, default) == IF key \in DOMAIN d THEN d[key] ELSE default

\* A JSON value held under "stats": an object, or something that is not one.
JsonObject(items) == [json |-> "object", items |-> items]
JsonString == [json |-> "string", items |-> EmptyDict]

(***************************************************************************)
(* Message model                                                           *)
(***************************************************************************)
NoUsage == [none |-> TRUE]
TextBlock(text) == [block |-> "TextBlock", text |-> text]
SystemMessage(subtype, data) ==
    [msg |-> "SystemMessage", subtype |-> subtype, data |-> data]
UserMessage(content) == [msg |-> "UserMessage", content |-> content]
AssistantMessage(content) == [msg |-> "AssistantMessage", content |-> content]
ResultMessage(subtype, duration_ms, is_error, session_id, num_turns, usage, result) ==
    [msg |-> "ResultMessage", subtype |-> subtype, duration_ms |-> duration_ms,
     is_error |-> is_error, session_id |-> session_id, num_turns |-> num_turns,
     total_cost_usd |-> None, usage |-> usage, result |-> result]

(***************************************************************************)
(* Text: str.strip, str.split("\n"), str.startswith, "\n{" in text          *)
(***************************************************************************)
LooksLikeJson(line) == line.head \in {"brace", "bracket"}
IsBlank(text) == \A i \in 1..Len(text) : text[i].head = "blank"
StripLine(line) == [line EXCEPT !.indent = FALSE]

RECURSIVE DropLeadingBlank(_)
DropLeadingBlank(text) ==
    IF text = <<>> THEN <<>>
    ELSE IF Head(text).head = "blank" THEN DropLeadingBlank(Tail(text))
    ELSE text

RECURSIVE DropTrailingBlank(_)
DropTrailingBlank(text) ==
    IF text = <<>> THEN <<>>
    ELSE IF text[Len(text)].head = "blank"
         THEN DropTrailingBlank(SubSeq(text, 1, Len(text) - 1))
    ELSE text

\* text.strip(): surrounding blank lines go, and the first line's indentation.
StripText(text) ==
    LET t == DropTrailingBlank(DropLeadingBlank(text))
    IN  IF t = <<>> THEN <<>> ELSE <<StripLine(t[1])>> \o Tail(t)

\* "\n{" in text: some line after the first begins with '{' in column 0.
HasNewlineBrace(text) ==
    \E i \in 2..Len(text) : text[i].head = "brace" /\ ~text[i].indent

\* The members the lines i.. of a pretty-printed object hold.
RECURSIVE Members(_, _)
Members(text, i) ==
    IF i > Len(text) THEN EmptyDict
    ELSE IF text[i].pos = "inner" THEN Members(text, i + 1) @@ text[i].data
    ELSE Members(text, i + 1)

\* json.loads(text): the text is one JSON document and nothing else, either a
\* one-line object or a pretty-printed one from its '{' to its '}'.
LoadsOk(text) ==
    LET t == StripText(text)
    IN  \/ Len(t) = 1 /\ t[1].valid
        \/ /\ Len(t) >= 2
           /\ t[1].pos = "open" /\ t[Len(t)].pos = "close"
           /\ \A i \in 2..(Len(t) - 1) : t[i].pos = "inner" \/ t[i].head = "blank"
Loads(text) ==
    LET t == StripText(text)
    IN  IF Len(t) = 1 THEN t[1].data ELSE Members(t, 1)

(***************************************************************************)
(* JSONParser                                                              *)
(***************************************************************************)
\* datetime.now() is an oracle: now[k] is the millisecond clock value the
\* k-th call of one parse reads.
_generate_session_id(now, k) == "gemini-" \o ToString(now[k])

_clean_output(output) ==
    LET lines == StripText(output)
        Kept(i) == \E j \in 1..i : LooksLikeJson(StripLine(lines[j]))
        RECURSIVE Collect(_)
        Collect(i) ==
            IF i > Len(lines) THEN <<>>
            ELSE (IF Kept(i) THEN <<lines[i]>> ELSE <<>>) \o Collect(i + 1)
    IN  Collect(1)

\* s[:n]
Slice(s, n) == IF Len(s) <= n THEN s ELSE SubSeq(s, 1, n)
ResultChars == 100

RECURSIVE SumOver(_, _, _, _)
SumOver(models_stats, names, group, field) ==
    IF names = {} THEN 0
    ELSE LET name == CHOOSE n \in names : TRUE
         IN  Get(Get(models_stats[name], group, EmptyDict), field, 0)
             + SumOver(models_stats, names \ {name}, group, field)

\* Returns [raised, error, messages, k]: k counts the clock reads made.
_parse_single_json(json_str, now) ==
    IF ~LoadsOk(json_str)
    THEN [raised |-> TRUE, error |-> "CLIJSONDecodeError", messages |-> <<>>, k |-> 0]
    ELSE
    LET data == Loads(json_str)
        response_text == Get(data, "response", "")
        first == IF Truthy(response_text)
                 THEN <<AssistantMessage(<<TextBlock(response_text)>>)>>
                 ELSE <<>>
        stats == Get(data, "stats", JsonObject(EmptyDict))
    IN  IF stats.json # "object"
        THEN [raised |-> TRUE, error |-> "AttributeError", messages |-> <<>>, k |-> 0]
        ELSE
        LET models_stats == Get(stats.items, "models", EmptyDict)
            total_duration_ms ==
                SumOver(models_stats, DOMAIN models_stats, "api", "totalLatencyMs")
            total_tokens ==
                SumOver(models_stats, DOMAIN models_stats, "tokens", "total")
            tool_stats == Get(stats.items, "tools", EmptyDict)
            tool_calls == Get(tool_stats, "totalCalls", 0)
        IN  [raised |-> FALSE, error |-> None, k |-> 1,
             messages |-> first \o
               <<ResultMessage("success", total_duration_ms, FALSE,
                   _generate_session_id(now, 1), 1,
                   [total_tokens |-> total_tokens, tool_calls |-> tool_calls,
                    models |-> models_stats],
                   IF Truthy(response_text)
                   THEN Slice(response_text, ResultChars) ELSE None)>>]

DecodeFailedRaises(st) == [st EXCEPT !.raised = TRUE, !.error = "JSONDecodeError"]

\* except json.JSONDecodeError in the loop of _parse_stream_json: the line is
\* logged and the loop continues.
DecodeFailed(st) == st

IsErrorStatusNotSuccess(status) == status # "success"

\* is_error=data.get("status") == "error"
IsErrorStatus(status) == status = "error"

\* One iteration of the loop of _parse_stream_json over a line; st is the
\* loop state [messages, session_id, k, raised, error].
StreamLine(st, raw_line, now) ==
    LET line == StripLine(raw_line)
    IN
    IF st.raised THEN st
    ELSE IF line.head # "brace" THEN st
    ELSE IF ~line.valid THEN DecodeFailed(st)
    ELSE
    LET data == line.data
        msg_type == Get(data, "type", None)
    IN
    IF msg_type = "init" THEN
        LET session_id == Get(data, "session_id", _generate_session_id(now, st.k + 1))
        IN  [st EXCEPT !.session_id = session_id,
                       !.k = st.k + 1,
                       !.messages = Append(st.messages,
                           SystemMessage("init",
                               [session_id |-> session_id,
                                model |-> Get(data, "model", None),
                                timestamp |-> Get(data, "timestamp", None)]))]
    ELSE IF msg_type = "message" THEN
        LET role == Get(data, "role", None)
            content == Get(data, "content", "")
        IN  IF role = "user"
            THEN [st EXCEPT !.messages = Append(st.messages, UserMessage(content))]
            ELSE IF role = "assistant" /\ Truthy(content)
            THEN [st EXCEPT !.messages = Append(st.messages,
                                AssistantMessage(<<TextBlock(content)>>))]
            ELSE st
    ELSE IF msg_type = "result" THEN
        LET stats == Get(data, "stats", JsonObject(EmptyDict))
            fresh == ~Truthy(st.session_id)
            k == IF fresh THEN st.k + 1 ELSE st.k
        IN  IF stats.json # "object"
            THEN [st EXCEPT !.raised = TRUE, !.error = "AttributeError"]
            ELSE [st EXCEPT !.k = k,
                     !.messages = Append(st.messages,
                        ResultMessage(Get(data, "status", "success"),
                            Get(stats.items, "duration_ms", 0),
                            IsErrorStatus(Get(data, "status", None)),
                            IF fresh THEN _generate_session_id(now, k)
                                     ELSE st.session_id,
                            1,
                            [total_tokens |-> Get(stats.items, "total_tokens", 0),
                             input_tokens |-> Get(stats.items, "input_tokens", 0),
                             output_tokens |-> Get(stats.items, "output_tokens", 0),
                             tool_calls |-> Get(stats.items, "tool_calls", 0)],
                            None))]
    ELSE IF msg_type = "error" THEN
        LET fresh == ~Truthy(st.session_id)
            k == IF fresh THEN st.k + 1 ELSE st.k
        IN  [st EXCEPT !.k = k,
                 !.messages = Append(st.messages,
                    ResultMessage("error", 0, TRUE,
                        IF fresh THEN _generate_session_id(now, k)
                                 ELSE st.session_id,
                        0, NoUsage,
                        Get(data, "message", "Unknown error")))]
    ELSE st

RECURSIVE StreamLoopStopsAtResult(_, _, _, _)
StreamLoopStopsAtResult(st, lines, i, now) ==
    IF i > Len(lines) THEN st
    ELSE IF st.messages # <<>> /\ st.messages[Len(st.messages)].msg = "ResultMessage"
    THEN st
    ELSE StreamLoopStopsAtResult(StreamLine(st, lines[i], now), lines, i + 1, now)

\* for line in json_str.strip().split("\n")
RECURSIVE StreamLoop(_, _, _, _)
StreamLoop(st, lines, i, now) ==
    IF i > Len(lines) THEN st
    ELSE StreamLoop(StreamLine(st, lines[i], now), lines, i + 1, now)

_parse_stream_json(json_str, now) ==
    LET st == StreamLoop([messages |-> <<>>, session_id |-> None, k |-> 0,
                          raised |-> FALSE, error |-> None],
                         StripText(json_str), 1, now)
    IN  [raised |-> st.raised, error |-> st.error, k |-> st.k,
         messages |-> IF st.raised THEN <<>> ELSE st.messages]

\* The format detection of parse: one object, no second one on a later line.
IsSingleJson(cleaned_output) ==
    /\ StripText(cleaned_output)[1].head = "brace"
    /\ ~HasNewlineBrace(cleaned_output)

ParseRejectsNoJson(raw, err, now) ==
    IF raw = <<>> \/ IsBlank(raw) \/ _clean_output(raw) = <<>>
    THEN [raised |-> TRUE, error |-> "ParsingError", original_error |-> None,
          messages |-> <<>>, k |-> 0]
    ELSE
    LET r == IF IsSingleJson(_clean_output(raw))
             THEN _parse_single_json(_clean_output(raw), now)
             ELSE _parse_stream_json(_clean_output(raw), now)
    IN  [raised |-> r.raised, error |-> IF r.raised THEN "ParsingError" ELSE None,
         original_error |-> r.error, messages |-> r.messages, k |-> r.k]

\* JSONParser.parse.  stderr is accepted and never read.
parse(raw, err, now) ==
    LET cleaned_output == _clean_output(raw)
        returned(messages) ==
            [raised |-> FALSE, error |-> None, original_error |-> None,
             messages |-> messages, k |-> 0]
    IN
    IF raw = <<>> \/ IsBlank(raw) THEN returned(<<>>)
    ELSE IF cleaned_output = <<>> THEN returned(<<>>)
    ELSE
    LET r == IF IsSingleJson(cleaned_output)
             THEN _parse_single_json(cleaned_output, now)
             ELSE _parse_stream_json(cleaned_output, now)
    IN  IF r.raised
        THEN [raised |-> TRUE, error |-> "ParsingError", original_error |-> r.error,
              messages |-> <<>>, k |-> r.k]
        ELSE [raised |-> FALSE, error |-> None, original_error |-> None,
              messages |-> r.messages, k |-> r.k]

(***************************************************************************)
(* The subprocess output the model draws from                              *)
(***************************************************************************)
Line(head, indent, valid, data) ==
    [head |-> head, indent |-> indent, valid |-> valid, data |-> data, pos |-> "line"]
\* A line of a pretty-printed object: json.loads rejects it on its own.
Fragment(head, indent, pos, data) ==
    [head |-> head, indent |-> indent, valid |-> FALSE, data |-> data, pos |-> pos]
Object(data) == Line("brace", FALSE, TRUE, data)

Banner == Line("other", FALSE, FALSE, EmptyDict)        \* YOLO mode is enabled
BlankLine == Line("blank", FALSE, FALSE, EmptyDict)
CorruptBrace == Line("brace", FALSE, FALSE, EmptyDict)  \* {"type": "mess
CorruptBracket == Line("bracket", FALSE, FALSE, EmptyDict)
CorruptIndented == Line("brace", TRUE, FALSE, EmptyDict)

InitLine == Object([type |-> "init", session_id |-> "s1", model |-> "gemini-2.0-flash"])
InitNoId == Object([type |-> "init"])
InitEmptyId == Object([type |-> "init", session_id |-> ""])
UserLine == Object([type |-> "message", role |-> "user", content |-> "hi"])
AssistantLine == Object([type |-> "message", role |-> "assistant", content |-> "yo"])
AssistantEmpty == Object([type |-> "message", role |-> "assistant", content |-> ""])
ResultLine == Object([type |-> "result"])
ResultErrorLine ==
    Object([type |-> "result", status |-> "error",
            stats |-> JsonObject([duration_ms |-> 5, total_tokens |-> 7])])
ResultBadStats == Object([type |-> "result", stats |-> JsonString])
ErrorLine == Object([type |-> "error", message |-> "boom"])
ToolLine == Object([type |-> "tool_use"])
SingleLine ==
    Object([response |-> "Hello!",
            stats |-> JsonObject(
              [models |-> [m1 |-> [api |-> [totalLatencyMs |-> 120],
                                   tokens |-> [total |-> 42]]],
               tools |-> [totalCalls |-> 0]])])

\* Single-JSON documents (-o json) on one line.
LongResponse ==
    "The quick brown fox jumps over the lazy dog; the five boxing wizards jump quickly; pack my box with five dozen liquor jugs."
SingleTwoModels ==
    Object([response |-> LongResponse,
            stats |-> JsonObject(
              [models |-> [m1 |-> [api |-> [totalLatencyMs |-> 120],
                                   tokens |-> [total |-> 42]],
                           m2 |-> [tokens |-> [total |-> 8]]]])])
SingleNoResponse == Object([stats |-> JsonObject(EmptyDict)])
SingleEmptyResponse == Object([response |-> ""])
SingleNullResponse == Object([response |-> None])

\* The same, pretty-printed over several lines.
PrettyOpen == Fragment("brace", FALSE, "open", EmptyDict)              \* {
PrettyResponse == Fragment("other", TRUE, "inner", [response |-> "Hello!"])
PrettyStats ==
    Fragment("other", TRUE, "inner",
        [stats |-> JsonObject(
           [models |-> [m1 |-> [api |-> [totalLatencyMs |-> 120],
                                tokens |-> [total |-> 42]]],
            tools |-> [totalCalls |-> 3]])])
PrettyClose == Fragment("other", FALSE, "close", EmptyDict)            \* }

\* Well-formed stream-JSON event lines, as the subprocess writes them.
EventLines == {InitLine, InitNoId, UserLine, AssistantLine, AssistantEmpty,
               ResultLine, ResultErrorLine, ErrorLine, ToolLine}
\* Further event lines: a dated init, assistant deltas, full statistics, an
\* error without a message.
InitStamped ==
    Object([type |-> "init", session_id |-> "s2", model |-> "gemini-2.5-pro",
            timestamp |-> "2025-01-01T00:00:00Z"])
AssistantDelta ==
    Object([type |-> "message", role |-> "assistant", content |-> "Hel", delta |-> TRUE])
AssistantDeltaRest ==
    Object([type |-> "message", role |-> "assistant", content |-> "lo!", delta |-> TRUE])
ResultFull ==
    Object([type |-> "result", status |-> "success",
            stats |-> JsonObject([duration_ms |-> 900, total_tokens |-> 30,
                                  input_tokens |-> 10, output_tokens |-> 20,
                                  tool_calls |-> 2])])
ErrorNoMessage == Object([type |-> "error"])
ExtraEventLines == {InitStamped, AssistantDelta, AssistantDeltaRest, ResultFull,
                    ErrorNoMessage}
\* Lines that json.loads rejects.
CorruptLines == {Banner, CorruptBrace, CorruptBracket, CorruptIndented}
\* The lines a payload is made of.
Lines == EventLines
           \cup {Banner, CorruptBrace, BlankLine, InitEmptyId, ResultBadStats, SingleLine}

RECURSIVE SeqsUpTo(_, _)
SeqsUpTo(S, n) ==
    IF n = 0 THEN {<<>>}
    ELSE LET shorter == SeqsUpTo(S, n - 1)
         IN  shorter \cup {Append(t, x) : t \in {u \in shorter : Len(u) = n - 1}, x \in S}

\* Lines the subprocess writes before its JSON output.
BannerLines == {Banner, CorruptBracket}                 \* [INFO] starting
\* Well-formed single-JSON documents.
SingleDocs == {<<SingleLine>>, <<SingleTwoModels>>, <<SingleNoResponse>>,
               <<SingleEmptyResponse>>, <<SingleNullResponse>>,
               <<PrettyOpen, PrettyResponse, PrettyStats, PrettyClose>>,
               <<PrettyOpen, PrettyStats, PrettyClose>>}
SinglePayloads == {b \o d : b \in SeqsUpTo(BannerLines, MaxLines - 1), d \in SingleDocs}

\* Whole stream-JSON outputs (-o stream-json).
RoundTrip == <<InitLine, UserLine, AssistantLine, ResultLine>>
StreamPayloads ==
    {RoundTrip,
     <<InitStamped, UserLine, AssistantDelta, AssistantDeltaRest, ToolLine, ResultFull>>,
     <<InitStamped, ErrorNoMessage>>,
     <<ErrorNoMessage, ResultFull>>}

Payloads == SeqsUpTo(Lines, MaxLines) \cup SinglePayloads \cup StreamPayloads
StderrTexts == {"", "Loaded cached credentials.", "{\"error\": \"quota exceeded\"}"}

\* How often one parse reads the clock (the readings do not change that).
ClockReads(raw, err) == parse(raw, err, [i \in 1..Len(raw) |-> 0]).k

\* The readings datetime.now() can return to the n clock reads of one parse:
\* the clock does not run backwards.
Oracle(n) == {now \in [1..n -> 0..MaxClock] :
                 \A i \in 1..(n - 1) : now[i] <= now[i + 1]}

NoReturn == [raised |-> FALSE, error |-> None, original_error |-> None,
             messages |-> <<>>]
NotAgain == [ret |-> NoReturn, reads |-> <<>>]

(***************************************************************************)
(* Exceptions                                                              *)
(***************************************************************************)
NoFault == [cls |-> "none", text |-> ""]
CancelledError == [cls |-> "CancelledError", text |-> ""]
GeneratorExit == [cls |-> "GeneratorExit", text |-> ""]
ParsingError == [cls |-> "ParsingError", text |-> "Failed to parse Gemini CLI JSON output"]
\* What the transport raises from connect and execute, and from disconnect.
Faults == {[cls |-> "CLIConnectionError", text |-> "Gemini CLI not found"],
           [cls |-> "ProcessError", text |-> "exit code 1"]}
DisconnectFaults == {[cls |-> "OSError", text |-> "kill failed"]}
\* The classes above that derive from Exception; CancelledError and
\* GeneratorExit derive from BaseException only.
ExceptionClasses == {"CLIConnectionError", "ProcessError", "ParsingError", "OSError",
                     "ValueError", "ImportError"}
str(e) == e.text

Running == [kind |-> "running", exc |-> NoFault, context |-> NoFault]

(***************************************************************************)
(* Direct calls of JSONParser.parse                                        *)
(***************************************************************************)
Returned(r) == [raised |-> r.raised, error |-> r.error,
                original_error |-> r.original_error, messages |-> r.messages]

DefaultOptions == [model |-> None, cwd |-> None, sandbox |-> FALSE, yolo |-> FALSE]

ClientIdle ==
    /\ pc = "idle" /\ via = "none" /\ prompt = "" /\ options = DefaultOptions
    /\ yielded = <<>> /\ idx = 0 /\ fault = NoFault /\ pending = NoFault
    /\ outcome = Running /\ calls = <<>> /\ yieldedAtDisconnect = 0
    /\ consumer = "none" /\ outer = "none"

\* No concurrent queries are running.
NoQueries == qs = <<>> /\ instances = 0 /\ sdk = None

\* InternalClient() was constructed with GEMINI_PARSER_STRATEGY not set.
Constructed ==
    /\ environ = None /\ llm = NoFault
    /\ args = [transport |-> None, parser |-> None]
    /\ client = [transport |-> "SubprocessCLITransport", parser |-> "JSONParser",
                 raised |-> NoFault]
    /\ warnings = <<>>
    /\ cpc = "constructed"
    /\ NoQueries

ParserInit ==
    /\ raw_output \in Payloads
    /\ stderr = ""
    /\ reads = <<>>
    /\ ret = NoReturn
    /\ ppc = "ready"
    /\ again = NotAgain
    /\ ClientIdle
    /\ Constructed

\* parse(raw_output): stderr keeps its default, "".
ParseCall ==
    /\ ppc = "ready"
    /\ \E now \in Oracle(ClockReads(raw_output, stderr)) :
         /\ ret' = Returned(parse(raw_output, stderr, now))
         /\ reads' = now
    /\ ppc' = "returned"
    /\ UNCHANGED <<raw_output, stderr, again, clientVars, createVars, concVars>>

ParserNext == ParseCall
ParserSpec == ParserInit /\ [][ParserNext]_vars

\* The readings of a later call: the clock has not run backwards since.
LaterOracle(n, earlier) ==
    {now \in Oracle(n) :
        n > 0 /\ Len(earlier) > 0 => earlier[Len(earlier)] <= now[1]}

\* parse(raw_output) once more, on the same JSONParser.
ParseAgain ==
    /\ ppc = "returned"
    /\ \E now \in LaterOracle(ClockReads(raw_output, stderr), reads) :
         again' = [ret |-> Returned(parse(raw_output, stderr, now)), reads |-> now]
    /\ ppc' = "returned again"
    /\ UNCHANGED <<raw_output, stderr, reads, ret, clientVars, createVars, concVars>>

RepeatNext == ParseCall \/ ParseAgain
RepeatSpec == ParserInit /\ [][RepeatNext]_vars

(***************************************************************************)
(* InternalClient.process_query and query()                                *)
(***************************************************************************)
Prompts == {"Hello, Gemini!", "Continue our conversation"}
OptionSets == {DefaultOptions,
               [model |-> "gemini-2.5-pro", cwd |-> "/home/user",
                sandbox |-> TRUE, yolo |-> TRUE]}
\* What transport.execute can return as stdout.
Outputs == {<<>>,
            <<BlankLine>>,
            <<BlankLine, BlankLine>>,
            <<Banner>>,
            <<Banner, BlankLine, Banner>>,
            <<Banner, SingleLine>>,
            <<InitLine, UserLine, AssistantLine, ResultLine>>,
            <<ResultLine, ErrorLine>>,
            <<InitLine, ResultBadStats>>}

\* os.getenv(name, default): the variable is not set.
getenv(name, default) == default
\* Path.cwd()
ProcessCwd == "/work"

\* The SystemMessage process_query synthesizes.
InitMessage(opts) ==
    SystemMessage("init",
        [model |-> IF Truthy(opts.model) THEN opts.model
                   ELSE getenv("GEMINI_MODEL", "gemini-2.0-flash"),
         cwd |-> IF Truthy(opts.cwd) THEN opts.cwd ELSE ProcessCwd,
         parser |-> "JSONParser",
         sandbox |-> opts.sandbox,
         yolo |-> opts.yolo])

CaughtParsingErrorOnly(e) == e.cls = "ParsingError"
CaughtImportErrorOnly(e) == e.cls = "ImportError"

\* except Exception
Caught(e) == e.cls \in ExceptionClasses

ErrorResultOfClass(e) ==
    ResultMessage("error_during_execution", 0, TRUE, "error", 0, NoUsage, e.cls)

\* The ResultMessage the except clause yields.
ErrorResult(e) ==
    ResultMessage("error_during_execution", 0, TRUE, "error", 0, NoUsage, str(e))

FinallySkipsCancellation(p) == p # CancelledError
FinallySkipsGeneratorExit(p) == p # GeneratorExit
FinallyOnlyAfterExecute(p) == \E i \in 1..Len(calls) : calls[i] = "execute"

\* finally: the clause runs whichever way the try statement is left, p being
\* the exception in flight (NoFault when the body completed).
Finally(p) == TRUE

ForwardedReversed(messages, i) == messages[Len(messages) + 1 - i]

\* for message in messages: yield message -- the message of iteration i.
Forwarded(messages, i) == messages[i]

\* How the run ends for the caller: p was in flight when the finally clause
\* ran, d is what disconnect raised there.
Ended(p, d) ==
    IF d # NoFault THEN [kind |-> "raised", exc |-> d, context |-> p]
    ELSE IF p = NoFault THEN [kind |-> "returned", exc |-> NoFault, context |-> NoFault]
    ELSE IF p = GeneratorExit THEN [kind |-> "closed", exc |-> NoFault, context |-> NoFault]
    ELSE [kind |-> "raised", exc |-> p, context |-> NoFault]

YieldPoints == {"yield_init", "yield_user", "yield_message", "yield_error"}

\* The try statement is left with p in flight, y yielded and c called so far.
LeaveTry(p, y, c) ==
    /\ yielded' = y
    /\ pending' = p
    /\ IF Finally(p)
       THEN /\ pc' = "disconnect"
            /\ calls' = Append(c, "disconnect")
            /\ yieldedAtDisconnect' = Len(y)
            /\ outcome' = outcome
       ELSE /\ pc' = "done"
            /\ calls' = c
            /\ yieldedAtDisconnect' = yieldedAtDisconnect
            /\ outcome' = Ended(p, NoFault)

\* e is raised in the body of the try statement.
RaiseInTry(e, y, c) ==
    IF Caught(e)
    THEN /\ pc' = "yield_error"
         /\ yielded' = Append(y, ErrorResult(e))
         /\ calls' = c
         /\ UNCHANGED <<pending, outcome, yieldedAtDisconnect>>
    ELSE LeaveTry(e, y, c)

\* The for loop at iteration i over the parsed messages.
ForLoop(messages, i, c) ==
    IF i <= Len(messages)
    THEN /\ pc' = "yield_message"
         /\ yielded' = Append(yielded, Forwarded(messages, i))
         /\ idx' = i
         /\ calls' = c
         /\ UNCHANGED <<pending, outcome, yieldedAtDisconnect>>
    ELSE /\ idx' = idx
         /\ LeaveTry(NoFault, yielded, c)

ClientInit ==
    /\ raw_output = <<>> /\ stderr = "" /\ reads = <<>> /\ ret = NoReturn
    /\ ppc = "unused" /\ again = NotAgain
    /\ Constructed
    /\ pc = "created"
    /\ via \in {"process_query", "query"}
    /\ prompt \in Prompts
    /\ options \in OptionSets
    /\ yielded = <<>> /\ idx = 0 /\ fault = NoFault /\ pending = NoFault
    /\ outcome = Running /\ calls = <<>> /\ yieldedAtDisconnect = 0
    /\ consumer = "iterating"
    /\ outer = IF via = "query" THEN "open" ELSE "none"

\* The consumer asks for the first message: the body starts, connect is awaited.
Start ==
    /\ pc = "created" /\ consumer = "iterating"
    /\ pc' = "connect"
    /\ calls' = Append(calls, "connect")
    /\ UNCHANGED <<concVars, createVars, parserVars, via, prompt, options, yielded, idx, fault, pending,
                   outcome, yieldedAtDisconnect, consumer, outer>>

ConnectReturns ==
    /\ pc = "connect"
    /\ pc' = "yield_init"
    /\ yielded' = Append(yielded, InitMessage(options))
    /\ UNCHANGED <<concVars, createVars, parserVars, via, prompt, options, idx, fault, pending, outcome,
                   calls, yieldedAtDisconnect, consumer, outer>>

ConnectRaises ==
    /\ pc = "connect"
    /\ \E e \in Faults :
         /\ fault' = e
         /\ RaiseInTry(e, yielded, calls)
    /\ UNCHANGED <<concVars, createVars, parserVars, via, prompt, options, idx, consumer, outer>>

\* The consumer asks for the message after the init message.
ResumeInit ==
    /\ pc = "yield_init" /\ consumer = "iterating"
    /\ pc' = "yield_user"
    /\ yielded' = Append(yielded, UserMessage(prompt))
    /\ UNCHANGED <<concVars, createVars, parserVars, via, prompt, options, idx, fault, pending, outcome,
                   calls, yieldedAtDisconnect, consumer, outer>>

\* The consumer asks for the message after the user echo: execute is awaited.
ResumeUser ==
    /\ pc = "yield_user" /\ consumer = "iterating"
    /\ pc' = "execute"
    /\ calls' = Append(calls, "execute")
    /\ UNCHANGED <<concVars, createVars, parserVars, via, prompt, options, yielded, idx, fault, pending,
                   outcome, yieldedAtDisconnect, consumer, outer>>

\* execute returns (stdout, stderr); parse runs on it; the loop starts.
ExecuteReturns ==
    /\ pc = "execute"
    /\ \E out \in Outputs, err \in StderrTexts :
         \E now \in Oracle(ClockReads(out, err)) :
           LET r == parse(out, err, now)
               c == Append(calls, "parse")
           IN  /\ raw_output' = out
               /\ stderr' = err
               /\ reads' = now
               /\ ret' = Returned(r)
               /\ IF r.raised
                  THEN /\ fault' = ParsingError
                       /\ idx' = idx
                       /\ RaiseInTry(ParsingError, yielded, c)
                  ELSE /\ fault' = fault
                       /\ ForLoop(r.messages, 1, c)
    /\ UNCHANGED <<ppc, again, via, prompt, options, consumer, outer, createVars,
                   concVars>>

ExecuteRaises ==
    /\ pc = "execute"
    /\ \E e \in Faults :
         /\ fault' = e
         /\ RaiseInTry(e, yielded, calls)
    /\ UNCHANGED <<concVars, createVars, parserVars, via, prompt, options, idx, consumer, outer>>

\* The consumer asks for the message after a parsed one.
ResumeMessage ==
    /\ pc = "yield_message" /\ consumer = "iterating"
    /\ ForLoop(ret.messages, idx + 1, calls)
    /\ UNCHANGED <<concVars, createVars, parserVars, via, prompt, options, fault, consumer, outer>>

\* The consumer asks for the message after the error message: raise.
ResumeError ==
    /\ pc = "yield_error" /\ consumer = "iterating"
    /\ LeaveTry(fault, yielded, calls)
    /\ UNCHANGED <<concVars, createVars, parserVars, via, prompt, options, idx, fault, consumer, outer>>

\* The task awaiting the transport is cancelled: CancelledError is raised at
\* the await of connect or execute.
Cancel ==
    /\ pc \in {"connect", "execute"}
    /\ RaiseInTry(CancelledError, yielded, calls)
    /\ UNCHANGED <<concVars, createVars, parserVars, via, prompt, options, idx, fault, consumer, outer>>

\* The consumer stops iterating at a message it was given.
Abandon ==
    /\ pc \in YieldPoints /\ consumer = "iterating"
    /\ consumer' = "abandoned"
    /\ UNCHANGED <<concVars, createVars, parserVars, pc, via, prompt, options, yielded, idx, fault,
                   pending, outcome, calls, yieldedAtDisconnect, outer>>

\* The abandoned query() generator is closed: GeneratorExit at its yield ends
\* it, and releases the process_query generator it was iterating.
CloseOuter ==
    /\ via = "query" /\ consumer = "abandoned" /\ outer = "open"
    /\ outer' = "closed"
    /\ UNCHANGED <<concVars, createVars, parserVars, pc, via, prompt, options, yielded, idx, fault,
                   pending, outcome, calls, yieldedAtDisconnect, consumer>>

\* The abandoned process_query generator is closed: GeneratorExit is raised
\* at the yield it is suspended at.
Close ==
    /\ consumer = "abandoned"
    /\ via = "process_query" \/ outer = "closed"
    /\ pc \in YieldPoints
    /\ IF pc = "yield_error"
       THEN LeaveTry(GeneratorExit, yielded, calls)
       ELSE RaiseInTry(GeneratorExit, yielded, calls)
    /\ UNCHANGED <<concVars, createVars, parserVars, via, prompt, options, idx, fault, consumer, outer>>

DisconnectReturns ==
    /\ pc = "disconnect"
    /\ pc' = "done"
    /\ outcome' = Ended(pending, NoFault)
    /\ outer' = IF outer = "open" THEN "closed" ELSE outer
    /\ UNCHANGED <<concVars, createVars, parserVars, via, prompt, options, yielded, idx, fault, pending,
                   calls, yieldedAtDisconnect, consumer>>

DisconnectRaises ==
    /\ pc = "disconnect"
    /\ pc' = "done"
    /\ \E d \in DisconnectFaults : outcome' = Ended(pending, d)
    /\ outer' = IF outer = "open" THEN "closed" ELSE outer
    /\ UNCHANGED <<concVars, createVars, parserVars, via, prompt, options, yielded, idx, fault, pending,
                   calls, yieldedAtDisconnect, consumer>>

Next ==
    \/ Start
    \/ ConnectReturns
    \/ ConnectRaises
    \/ ResumeInit
    \/ ResumeUser
    \/ ExecuteReturns
    \/ ExecuteRaises
    \/ ResumeMessage
    \/ ResumeError
    \/ Cancel
    \/ Abandon
    \/ CloseOuter
    \/ Close
    \/ DisconnectReturns
    \/ DisconnectRaises

Spec == ClientInit /\ [][Next]_vars

\* The event loop finalizes an abandoned asynchronous generator (the hooks
\* asyncio installs close it), and the transport's calls complete.
FairSpec ==
    /\ Spec
    /\ WF_vars(CloseOuter)
    /\ WF_vars(Close)
    /\ WF_vars(DisconnectReturns \/ DisconnectRaises)

(***************************************************************************)
(* InternalClient.__init__ and _create_parser                              *)
(***************************************************************************)
UpperCase == "ABCDEFGHIJKLMNOPQRSTUVWXYZ"
LowerCase == "abcdefghijklmnopqrstuvwxyz"
LowerChar(c) ==
    IF \E i \in 1..Len(UpperCase) : SubSeq(UpperCase, i, i) = c
    THEN LET i == CHOOSE i \in 1..Len(UpperCase) : SubSeq(UpperCase, i, i) = c
         IN  SubSeq(LowerCase, i, i)
    ELSE c
\* str.lower()
RECURSIVE Lower(_)
Lower(s) ==
    IF Len(s) = 0 THEN ""
    ELSE LowerChar(SubSeq(s, 1, 1)) \o Lower(SubSeq(s, 2, Len(s)))

\* os.getenv(name, default) for the parser strategy.
getenv_strategy(value, default) == IF value = None THEN default ELSE value

\* The values GEMINI_PARSER_STRATEGY is given.
Strategies == {None, "", "json", "JSON", "Json", "llm", "LLM", "Llm", "regex", "llm "}
\* What LLMParser() raises when it cannot be constructed.
LLMFaults == {[cls |-> "ValueError", text |-> "GEMINI_API_KEY is not set"],
              [cls |-> "ImportError", text |-> "No module named 'google.generativeai'"]}
\* The arguments of InternalClient(transport, parser).
Arguments == [transport : {None, "MockTransport"},
              parser : {None, "JSONParser", "MockParser"}]

\* InternalClient._create_parser: [raised, parser, warnings].
_create_parser(value, construction) ==
    LET parser_type == Lower(getenv_strategy(value, "json"))
    IN  IF parser_type = "json"
        THEN [raised |-> NoFault, parser |-> "JSONParser", warnings |-> <<>>]
        ELSE IF parser_type = "llm"
        THEN IF construction = NoFault
             THEN [raised |-> NoFault, parser |-> "LLMParser", warnings |-> <<>>]
             ELSE IF Caught(construction)
             THEN [raised |-> NoFault, parser |-> "JSONParser",
                   warnings |-> <<"Failed to create LLM parser: " \o str(construction)
                                    \o ". Using JSON parser.">>]
             ELSE [raised |-> construction, parser |-> None, warnings |-> <<>>]
        ELSE [raised |-> NoFault, parser |-> "JSONParser",
              warnings |-> <<"Unknown parser type: " \o parser_type
                               \o ". Using JSON parser.">>]

CreateInit ==
    /\ environ \in Strategies
    /\ llm \in {NoFault} \cup LLMFaults
    /\ args \in Arguments
    /\ client = [transport |-> None, parser |-> None, raised |-> NoFault]
    /\ warnings = <<>>
    /\ cpc = "new"
    /\ NoQueries
    /\ raw_output = <<>> /\ stderr = "" /\ reads = <<>> /\ ret = NoReturn
    /\ ppc = "unused" /\ again = NotAgain
    /\ ClientIdle

\* InternalClient(transport, parser)
Construct ==
    /\ cpc = "new"
    /\ LET created == IF args.parser # None
                      THEN [raised |-> NoFault, parser |-> args.parser, warnings |-> <<>>]
                      ELSE _create_parser(environ, llm)
       IN  /\ client' = [transport |-> IF args.transport # None THEN args.transport
                                       ELSE "SubprocessCLITransport",
                         parser |-> created.parser,
                         raised |-> created.raised]
           /\ warnings' = created.warnings
           /\ cpc' = IF created.raised = NoFault THEN "constructed" ELSE "raised"
    /\ UNCHANGED <<environ, llm, args, parserVars, clientVars, concVars>>

CreateNext == Construct
CreateSpec == CreateInit /\ [][CreateNext]_vars

(***************************************************************************)
(* Concurrent calls of query()                                             *)
(***************************************************************************)
\* The queries the consumer drives at the same time, each in its own task.
Queries == {1, 2}
QueryPrompts == <<"Hello, Gemini!", "Continue our conversation">>
\* What the subprocess of a concurrent query writes to stdout.
QueryOutputs == {<<>>, RoundTrip, <<ResultLine, ErrorLine>>, <<InitLine, ResultBadStats>>}

SharedTransport(n) == 1

\* SubprocessCLITransport(output_format="json"): a new object, the n+1st.
NewTransport(n) == n + 1

\* A query() call whose body has not started.
NewQuery(q) ==
    [pc |-> "created", transport |-> 0, parser |-> None,
     prompt |-> QueryPrompts[q], options |-> DefaultOptions,
     yielded |-> <<>>, calls |-> <<>>, idx |-> 0, messages |-> <<>>,
     fault |-> NoFault, pending |-> NoFault, outcome |-> Running,
     connect |-> NoFault, execute |-> NoFault, stdout |-> <<>>, now |-> <<>>]

QueriesInit ==
    /\ qs = [q \in Queries |-> NewQuery(q)]
    /\ instances = 0
    /\ sdk = None
    /\ raw_output = <<>> /\ stderr = "" /\ reads = <<>> /\ ret = NoReturn
    /\ ppc = "unused" /\ again = NotAgain
    /\ ClientIdle
    /\ environ = None /\ llm = NoFault
    /\ args = [transport |-> None, parser |-> None]
    /\ client = [transport |-> None, parser |-> None, raised |-> NoFault]
    /\ warnings = <<>> /\ cpc = "unused"

\* Query q takes a step to the state next; nothing else changes.
Becomes(q, next) ==
    /\ qs' = [qs EXCEPT ![q] = next]
    /\ UNCHANGED <<parserVars, clientVars, createVars>>

\* The try statement of query q is left with p in flight.
QLeaveTry(me, p) ==
    [me EXCEPT !.pending = p, !.pc = "disconnect",
               !.calls = Append(me.calls, "disconnect")]

\* e is raised in the body of the try statement of query q.
QRaiseInTry(me, e) ==
    IF Caught(e)
    THEN [me EXCEPT !.fault = e, !.pc = "yield_error",
                    !.yielded = Append(me.yielded, ErrorResult(e))]
    ELSE QLeaveTry(me, e)

\* The for loop of query q at iteration i.
QForLoop(me, i) ==
    IF i <= Len(me.messages)
    THEN [me EXCEPT !.pc = "yield_message", !.idx = i,
                    !.yielded = Append(me.yielded, Forwarded(me.messages, i))]
    ELSE QLeaveTry(me, NoFault)

\* The first message of query q is asked for: the SDK identifier is set,
\* client = InternalClient(), and process_query awaits connect.
QStart(q) ==
    /\ qs[q].pc = "created"
    /\ sdk' = "python"
    /\ instances' = instances + 1
    /\ Becomes(q, [qs[q] EXCEPT !.transport = NewTransport(instances),
                                !.parser = _create_parser(None, NoFault).parser,
                                !.pc = "connect",
                                !.calls = Append(qs[q].calls, "connect")])

QConnectReturns(q) ==
    /\ qs[q].pc = "connect"
    /\ Becomes(q, [qs[q] EXCEPT !.connect = NoFault, !.pc = "yield_init",
                     !.yielded = Append(qs[q].yielded, InitMessage(qs[q].options))])
    /\ UNCHANGED <<instances, sdk>>

QConnectRaises(q) ==
    /\ qs[q].pc = "connect"
    /\ \E e \in Faults :
         Becomes(q, QRaiseInTry([qs[q] EXCEPT !.connect = e], e))
    /\ UNCHANGED <<instances, sdk>>

QResumeInit(q) ==
    /\ qs[q].pc = "yield_init"
    /\ Becomes(q, [qs[q] EXCEPT !.pc = "yield_user",
                     !.yielded = Append(qs[q].yielded, UserMessage(qs[q].prompt))])
    /\ UNCHANGED <<instances, sdk>>

QResumeUser(q) ==
    /\ qs[q].pc = "yield_user"
    /\ Becomes(q, [qs[q] EXCEPT !.pc = "execute",
                                !.calls = Append(qs[q].calls, "execute")])
    /\ UNCHANGED <<instances, sdk>>

QExecuteReturns(q) ==
    /\ qs[q].pc = "execute"
    /\ \E out \in QueryOutputs :
         \E now \in Oracle(ClockReads(out, "")) :
           LET r == parse(out, "", now)
               me == [qs[q] EXCEPT !.stdout = out, !.now = now,
                                   !.calls = Append(qs[q].calls, "parse"),
                                   !.messages = r.messages]
           IN  Becomes(q, IF r.raised THEN QRaiseInTry(me, ParsingError)
                          ELSE QForLoop(me, 1))
    /\ UNCHANGED <<instances, sdk>>

QExecuteRaises(q) ==
    /\ qs[q].pc = "execute"
    /\ \E e \in Faults :
         Becomes(q, QRaiseInTry([qs[q] EXCEPT !.execute = e], e))
    /\ UNCHANGED <<instances, sdk>>

QResumeMessage(q) ==
    /\ qs[q].pc = "yield_message"
    /\ Becomes(q, QForLoop(qs[q], qs[q].idx + 1))
    /\ UNCHANGED <<instances, sdk>>

QResumeError(q) ==
    /\ qs[q].pc = "yield_error"
    /\ Becomes(q, QLeaveTry(qs[q], qs[q].fault))
    /\ UNCHANGED <<instances, sdk>>

QDisconnectReturns(q) ==
    /\ qs[q].pc = "disconnect"
    /\ Becomes(q, [qs[q] EXCEPT !.pc = "done",
                                !.outcome = Ended(qs[q].pending, NoFault)])
    /\ UNCHANGED <<instances, sdk>>

QDisconnectRaises(q) ==
    /\ qs[q].pc = "disconnect"
    /\ \E d \in DisconnectFaults :
         Becomes(q, [qs[q] EXCEPT !.pc = "done",
                                  !.outcome = Ended(qs[q].pending, d)])
    /\ UNCHANGED <<instances, sdk>>

QueriesNext ==
    \E q \in Queries :
        \/ QStart(q)
        \/ QConnectReturns(q)
        \/ QConnectRaises(q)
        \/ QResumeInit(q)
        \/ QResumeUser(q)
        \/ QExecuteReturns(q)
        \/ QExecuteRaises(q)
        \/ QResumeMessage(q)
        \/ QResumeError(q)
        \/ QDisconnectReturns(q)
        \/ QDisconnectRaises(q)

QueriesSpec == QueriesInit /\ [][QueriesNext]_vars

(***************************************************************************)
(* Properties                                                              *)
(***************************************************************************)
IsResult(m) == m.msg = "ResultMessage"
IsSystem(m) == m.msg = "SystemMessage"
IsErrorResult(m) == IsResult(m) /\ m.subtype = "error_during_execution"
Called(name) == \E i \in 1..Len(calls) : calls[i] = name
Last(seq) == seq[Len(seq)]
Insert(seq, p, x) == SubSeq(seq, 1, p) \o <<x>> \o SubSeq(seq, p + 1, Len(seq))
IsValidStream(text) == \A i \in 1..Len(text) : text[i] \in EventLines
\* The readings of the recorded parse, continued for a parse that reads more.
ReadsFor(text) == [i \in 1..Len(text) |-> IF i <= Len(reads) THEN reads[i] ELSE MaxClock]

\* C1: a run of process_query that has ended, on whichever path (completion,
\* a fault of connect, execute or parse, cancellation, closing), invoked
\* disconnect exactly once, as its last call and after the last message it
\* yielded: nothing is yielded once disconnect has been invoked.
DisconnectOnEveryExit ==
    /\ pc = "done" =>
         /\ Called("disconnect")
         /\ Last(calls) = "disconnect"
         /\ Cardinality({i \in 1..Len(calls) : calls[i] = "disconnect"}) = 1
    /\ Called("disconnect") => Len(yielded) = yieldedAtDisconnect

\* A run whose in-flight execute was cancelled has ended, disconnect invoked.
CancelledExecuteDisconnected ==
    /\ pc = "done" /\ pending = CancelledError
    /\ Called("execute") /\ Called("disconnect")

\* C2: once connect, execute or parse raised a fault, the messages yielded
\* hold exactly one error ResultMessage, it is the last of them, it has
\* subtype error_during_execution, is_error, duration_ms 0, num_turns 0,
\* session_id "error" and the fault's text as result; the fault is in flight
\* or propagated only in such a state.
FaultYieldsOneErrorResult ==
    fault # NoFault =>
      /\ Len(yielded) > 0
      /\ Last(yielded) =
           [msg |-> "ResultMessage", subtype |-> "error_during_execution",
            duration_ms |-> 0, is_error |-> TRUE, session_id |-> "error",
            num_turns |-> 0, total_cost_usd |-> None, usage |-> NoUsage,
            result |-> fault.text]
      /\ Cardinality({i \in 1..Len(yielded) : IsErrorResult(yielded[i])}) = 1

\* parse raised after both synthetic messages; the fault reached the caller.
ParseFaultPropagated ==
    /\ pc = "done" /\ fault = ParsingError
    /\ outcome.kind = "raised" /\ outcome.exc = ParsingError
    /\ Len(yielded) = 3

\* C3: once the consumer has abandoned the iteration, of process_query or of
\* query(), at whichever message, disconnect is eventually invoked.
AbandonedRunDisconnects == (consumer = "abandoned") ~> Called("disconnect")

\* query() was abandoned at the synthetic error message, and disconnect ran.
AbandonedAtErrorDisconnected ==
    /\ consumer = "abandoned" /\ via = "query"
    /\ Len(yielded) > 0 /\ IsErrorResult(Last(yielded))
    /\ pending = GeneratorExit /\ pc = "done" /\ Called("disconnect")

\* C4, as claimed: whenever a run ends by propagating a fault, from whatever
\* stage, an error ResultMessage with that fault's text was yielded, the fault
\* is the one originally raised, and disconnect was run.
PropagatedFaultWasAnnounced ==
    (pc = "done" /\ outcome.kind = "raised" /\ outcome.exc.cls \in ExceptionClasses) =>
      /\ \E i \in 1..Len(yielded) :
            IsErrorResult(yielded[i]) /\ yielded[i].result = outcome.exc.text
      /\ outcome.exc = fault
      /\ Called("disconnect")

\* C4, amended: when connect, execute or parse raised a fault, the error
\* ResultMessage with its text was yielded and disconnect was run before
\* anything propagated; the caller observes that fault, unless disconnect
\* raised, whose fault then propagates with the one in flight as its context.
StageFaultAnnouncedThenPropagated ==
    (pc = "done" /\ outcome.kind = "raised" /\ outcome.exc.cls \in ExceptionClasses) =>
      /\ Called("disconnect")
      /\ \/ /\ outcome.exc = fault
            /\ fault # NoFault
         \/ /\ outcome.exc \in DisconnectFaults
            /\ outcome.context = pending
      /\ fault # NoFault =>
            /\ Len(yielded) > 0
            /\ IsErrorResult(Last(yielded))
            /\ Last(yielded).result = fault.text
            /\ pending \in {fault, GeneratorExit}

\* execute raised, the error message was consumed, then disconnect raised.
DisconnectFaultReplacedFault ==
    /\ pc = "done" /\ outcome.kind = "raised"
    /\ outcome.exc \in DisconnectFaults
    /\ fault \in Faults /\ outcome.context = fault
    /\ Called("execute")

\* C5: execute is not invoked before the init message and the echo of the
\* prompt were delivered, in this order; while the parsed messages are
\* forwarded the consumer has them in the parser's order; a run in which
\* nothing raised and nothing was abandoned delivered exactly the two
\* synthetic messages followed by all the messages parse returned.
SuccessfulRunDeliversInOrder ==
    /\ Called("execute") =>
         /\ Len(yielded) >= 2
         /\ IsSystem(yielded[1]) /\ yielded[1].subtype = "init"
         /\ yielded[1].data.parser = "JSONParser"
         /\ yielded[2] = [msg |-> "UserMessage", content |-> prompt]
    /\ pc = "yield_message" =>
         SubSeq(yielded, 3, Len(yielded)) = SubSeq(ret.messages, 1, idx)
    /\ (pc \in {"disconnect", "done"} /\ fault = NoFault /\ pending = NoFault) =>
         /\ ret.messages = parse(raw_output, stderr, reads).messages
         /\ SubSeq(yielded, 3, Len(yielded)) = ret.messages
         /\ Len(yielded) = 2 + Len(ret.messages)

\* A stream of four events was delivered whole after the two synthetic messages.
StreamDeliveredWhole ==
    /\ pc = "done" /\ outcome.kind = "returned"
    /\ Len(ret.messages) = 4 /\ Len(yielded) = 6

\* C6, as claimed: in the sequence process_query delivers and in the list
\* parse returns, every SystemMessage precedes every other message.
SystemMessagesFirst ==
    /\ \A i, j \in 1..Len(yielded) :
          (i < j /\ IsSystem(yielded[j])) => IsSystem(yielded[i])
    /\ \A i, j \in 1..Len(ret.messages) :
          (i < j /\ IsSystem(ret.messages[j])) => IsSystem(ret.messages[i])

\* C7, as claimed: for N >= 1 valid event lines, parse with one corrupt line
\* inserted at any position raises nothing and returns the messages of the
\* valid lines alone.
CorruptLineContributesNothing ==
    (ppc = "returned" /\ Len(raw_output) >= 1 /\ IsValidStream(raw_output)) =>
      \A p \in 0..Len(raw_output), c \in CorruptLines :
        LET with == Insert(raw_output, p, c)
            r == parse(with, stderr, ReadsFor(with))
        IN  ~r.raised /\ ~ret.raised /\ r.messages = ret.messages

\* C7, amended: the same for N >= 2 valid event lines (each starting with
\* '{' in column 0), the clock giving both parses the same readings.
CorruptLineAmongTwoOrMore ==
    (ppc = "returned" /\ Len(raw_output) >= 2 /\ IsValidStream(raw_output)) =>
      \A p \in 0..Len(raw_output), c \in CorruptLines :
        LET with == Insert(raw_output, p, c)
            r == parse(with, stderr, ReadsFor(with))
        IN  ~r.raised /\ ~ret.raised /\ r.messages = ret.messages

\* Three valid event lines were parsed into three messages.
ThreeEventsParsed ==
    /\ ppc = "returned" /\ Len(raw_output) = 3 /\ IsValidStream(raw_output)
    /\ Len(ret.messages) = 3

\* C8, as claimed: in the list parse returns, a ResultMessage carries the
\* session id of the latest init SystemMessage before it, and the
\* ResultMessages that no init precedes all carry the same session id.
SessionIdFollowsInit ==
    ppc = "returned" =>
      LET m == ret.messages
          inits(j) == {i \in 1..(j - 1) : IsSystem(m[i])}
          latest(j) == CHOOSE i \in inits(j) : \A h \in inits(j) : h <= i
      IN  \A j \in 1..Len(m) :
            IsResult(m[j]) =>
              IF inits(j) # {}
              THEN m[j].session_id = m[latest(j)].data.session_id
              ELSE \A h \in 1..Len(m) :
                     (IsResult(m[h]) /\ inits(h) = {}) =>
                        m[h].session_id = m[j].session_id

\* C9, as claimed: every session id parse puts into a ResultMessage or into
\* the SystemMessage of an init event is a non-empty string.
SessionIdNeverEmpty ==
    ppc = "returned" =>
      \A j \in 1..Len(ret.messages) :
        LET m == ret.messages[j]
        IN  /\ IsResult(m) => Truthy(m.session_id)
            /\ IsSystem(m) => Truthy(m.data.session_id)

\* C10, as claimed: a parse that detected stream-JSON raises nothing,
\* whatever its lines hold.
StreamParseNeverRaises ==
    (ppc = "returned" /\ _clean_output(raw_output) # <<>>
       /\ ~IsSingleJson(_clean_output(raw_output))) => ~ret.raised

\* A banner line: a line that is not JSON.
IsBannerLine(line) == line.pos = "line" /\ ~line.valid /\ line.head # "blank"
\* text is the document d preceded by banner lines only.
BannersThen(text, d) ==
    \E n \in 0..Len(text) :
        /\ \A i \in 1..n : IsBannerLine(text[i])
        /\ SubSeq(text, n + 1, Len(text)) = d
IsSuccessResult(m) ==
    /\ IsResult(m) /\ m.subtype = "success" /\ m.is_error = FALSE
    /\ m.num_turns = 1 /\ m.total_cost_usd = None

\* C11, as claimed: parse of a well-formed single-JSON document, preceded by
\* any number of non-JSON banner lines, raises nothing and returns, when the
\* response is non-empty, one AssistantMessage holding one TextBlock with the
\* response followed by one ResultMessage with subtype success, is_error
\* false, num_turns 1 and no total_cost_usd, and otherwise that ResultMessage
\* alone.
SingleJsonYieldsAssistantThenResult ==
    ppc = "returned" =>
      \A d \in SingleDocs :
        BannersThen(raw_output, d) =>
          LET response == Get(Loads(d), "response", "")
              m == ret.messages
          IN  /\ ~ret.raised
              /\ IF Truthy(response)
                 THEN /\ Len(m) = 2
                      /\ m[1] = [msg |-> "AssistantMessage",
                                 content |-> <<[block |-> "TextBlock", text |-> response]>>]
                      /\ IsSuccessResult(m[2])
                 ELSE /\ Len(m) = 1
                      /\ IsSuccessResult(m[1])

\* C12, as claimed: a second call of parse with the same stdout and stderr
\* returns what the first call returned, message for message and field for
\* field, whenever it is made.
ParseIsRepeatable ==
    ppc = "returned again" =>
      /\ again.ret.raised = ret.raised
      /\ again.ret.messages = ret.messages

\* What the stream-JSON format says of one event line: whether it yields a
\* message, and whether m is that message with the line's field values.
IsEventStream(text) ==
    \A i \in 1..Len(text) : text[i] \in EventLines \cup ExtraEventLines
EventYields(line) ==
    LET d == line.data
        type == Get(d, "type", None)
        role == Get(d, "role", None)
    IN  \/ type \in {"init", "result", "error"}
        \/ type = "message" /\ role = "user"
        \/ type = "message" /\ role = "assistant" /\ Truthy(Get(d, "content", ""))
EventMessage(line, m) ==
    LET d == line.data
        type == Get(d, "type", None)
        stats == Get(d, "stats", JsonObject(EmptyDict)).items
    IN  CASE type = "init" ->
               /\ m.msg = "SystemMessage" /\ m.subtype = "init"
               /\ "session_id" \in DOMAIN d => m.data.session_id = d.session_id
               /\ m.data.model = Get(d, "model", None)
               /\ m.data.timestamp = Get(d, "timestamp", None)
          [] type = "message" /\ Get(d, "role", None) = "user" ->
               m = [msg |-> "UserMessage", content |-> Get(d, "content", "")]
          [] type = "message" /\ Get(d, "role", None) = "assistant" ->
               m = [msg |-> "AssistantMessage",
                    content |-> <<[block |-> "TextBlock", text |-> d.content]>>]
          [] type = "result" ->
               /\ m.msg = "ResultMessage"
               /\ m.subtype = Get(d, "status", "success")
               /\ m.duration_ms = Get(stats, "duration_ms", 0)
               /\ m.usage.total_tokens = Get(stats, "total_tokens", 0)
               /\ m.usage.input_tokens = Get(stats, "input_tokens", 0)
               /\ m.usage.output_tokens = Get(stats, "output_tokens", 0)
               /\ m.usage.tool_calls = Get(stats, "tool_calls", 0)
          [] type = "error" ->
               /\ m.msg = "ResultMessage" /\ m.is_error = TRUE
               /\ m.result = Get(d, "message", "Unknown error")
          [] OTHER -> FALSE
\* The messages m[j..] are those of the lines text[i..], in line order.
RECURSIVE InLineOrder(_, _, _, _)
InLineOrder(text, i, m, j) ==
    IF i > Len(text) THEN j > Len(m)
    ELSE IF EventYields(text[i])
    THEN j <= Len(m) /\ EventMessage(text[i], m[j]) /\ InLineOrder(text, i + 1, m, j + 1)
    ELSE InLineOrder(text, i + 1, m, j)

\* C13: parse of two or more valid stream-JSON event lines raises nothing and
\* returns the lines' messages in line order with the lines' field values:
\* init gives a SystemMessage, a user message a UserMessage, an assistant
\* message with non-empty content an AssistantMessage with one TextBlock (one
\* per line, deltas too), result a ResultMessage, error a ResultMessage with
\* is_error; other types and empty assistant content give nothing.
StreamEventsInLineOrder ==
    (ppc = "returned" /\ Len(raw_output) >= 2 /\ IsEventStream(raw_output)) =>
      /\ ~ret.raised
      /\ InLineOrder(raw_output, 1, ret.messages, 1)

\* {init, message(user), message(assistant), result} was parsed into
\* [SystemMessage, UserMessage, AssistantMessage, ResultMessage].
RoundTripParsed ==
    /\ ppc = "returned" /\ raw_output = RoundTrip
    /\ Len(ret.messages) = 4
    /\ ret.messages[1].msg = "SystemMessage" /\ ret.messages[1].data.session_id = "s1"
    /\ ret.messages[2] = [msg |-> "UserMessage", content |-> "hi"]
    /\ ret.messages[3].msg = "AssistantMessage"
    /\ ret.messages[4].msg = "ResultMessage" /\ ret.messages[4].session_id = "s1"

\* No line of text begins with '{' or '[': text may be empty or all blank.
NoJsonLine(text) == \A i \in 1..Len(text) : ~LooksLikeJson(text[i])

\* C14, as claimed: when stdout is empty, blank or without a line beginning
\* with '{' or '[', parse raises nothing and returns no message, whatever
\* stderr holds, and process_query delivers its two synthetic messages only
\* and ends without a fault.
EmptyOutputEndsWithoutFault ==
    (Called("parse") /\ NoJsonLine(raw_output)) =>
      /\ ~ret.raised /\ ret.messages = <<>>
      /\ yielded = <<InitMessage(options), UserMessage(prompt)>>
      /\ pc = "done" => outcome.kind = "returned"

\* C14, amended: the same, the run ending without a fault unless disconnect
\* itself raises: nothing has been raised and nothing is in flight when
\* disconnect is awaited, and the run returns when disconnect returns.
EmptyOutputYieldsOnlySynthetics ==
    (Called("parse") /\ NoJsonLine(raw_output)) =>
      /\ ~ret.raised /\ ret.messages = <<>>
      /\ yielded = <<InitMessage(options), UserMessage(prompt)>>
      /\ fault = NoFault /\ pending = NoFault
      /\ pc \in {"disconnect", "done"}
      /\ pc = "done" =>
            \/ outcome.kind = "returned"
            \/ /\ outcome.kind = "raised" /\ outcome.exc \in DisconnectFaults
               /\ outcome.context = NoFault

\* Banner lines only on stdout and JSON on stderr: the run returned after
\* its two synthetic messages.
BannerOnlyRunReturned ==
    /\ pc = "done" /\ outcome.kind = "returned"
    /\ raw_output = <<Banner, BlankLine, Banner>>
    /\ stderr = "{\"error\": \"quota exceeded\"}"
    /\ Len(yielded) = 2 /\ Called("parse")

\* C15: InternalClient._create_parser raises nothing, whatever
\* GEMINI_PARSER_STRATEGY holds (not set, "json", "llm" in any letter case,
\* anything else) and however LLMParser() ends; it returns a JSONParser for
\* every value that is not "llm" in some letter case, and for "llm" too when
\* LLMParser() raises.
ParserSelectionNeverFails ==
    (cpc # "new" /\ args.parser = None) =>
      /\ cpc = "constructed" /\ client.raised = NoFault
      /\ client.parser \in {"JSONParser", "LLMParser"}
      /\ environ \notin {"llm", "LLM", "Llm"} => client.parser = "JSONParser"
      /\ llm # NoFault => client.parser = "JSONParser"

\* GEMINI_PARSER_STRATEGY=LLM and LLMParser() raised: the client has a
\* JSONParser, and the failure was logged.
LLMFallbackSelected ==
    /\ cpc = "constructed" /\ args.parser = None
    /\ environ = "LLM" /\ llm \in LLMFaults
    /\ client.parser = "JSONParser" /\ client.raised = NoFault
    /\ Len(warnings) = 1

\* The stages invoked so far are connect, execute, parse in this order, each
\* once, then disconnect; the synthetic messages come after connect and
\* before execute; a run that has ended invoked disconnect last.
StageOrder ==
    /\ \E n \in 0..3, d \in 0..1 :
          /\ calls = SubSeq(<<"connect", "execute", "parse">>, 1, n)
                       \o (IF d = 1 THEN <<"disconnect">> ELSE <<>>)
          /\ d = 1 => n >= 1
    /\ ~Called("connect") => yielded = <<>>
    /\ Called("execute") =>
          /\ Len(yielded) >= 2
          /\ yielded[1] = InitMessage(options) /\ yielded[2] = UserMessage(prompt)
    /\ ~Called("execute") =>
          \E n \in 0..2 :
              yielded \in {SubSeq(<<InitMessage(options), UserMessage(prompt)>>, 1, n),
                           SubSeq(<<InitMessage(options), UserMessage(prompt)>>, 1, n)
                              \o <<ErrorResult(fault)>>}
    /\ pc = "done" => Len(calls) > 0 /\ Last(calls) = "disconnect"

\* C16: in every run of process_query the stages connect, emit synthetics,
\* execute, parse, disconnect occur in this order and at most once each, and
\* once a stage has raised (or the run was cancelled or closed) no stage is
\* invoked but disconnect, which is invoked also when connect raised.
StagesOnceInOrder ==
    /\ []StageOrder
    /\ [][(fault # NoFault \/ pending # NoFault) =>
            (calls' = calls \/ calls' = Append(calls, "disconnect"))]_vars

\* connect raised: nothing but disconnect was invoked after it.
ConnectFailedThenDisconnect ==
    /\ pc = "done" /\ fault \in Faults
    /\ calls = <<"connect", "disconnect">>

\* C17, as claimed: when the cleaned text is exactly one JSON object line,
\* whatever its "type", parse raises nothing and returns one ResultMessage
\* with subtype success and is_error false, preceded by one AssistantMessage
\* if and only if the object has a non-empty response: no SystemMessage, no
\* UserMessage and no error ResultMessage comes of a lone event line.
LoneObjectParsedAsSingleJson ==
    LET c == _clean_output(raw_output)
    IN  (ppc = "returned" /\ Len(c) = 1 /\ c[1].valid) =>
          LET m == ret.messages
              n == Len(m)
          IN  /\ ~ret.raised
              /\ n = IF Truthy(Get(c[1].data, "response", "")) THEN 2 ELSE 1
              /\ IsResult(m[n]) /\ m[n].subtype = "success" /\ m[n].is_error = FALSE
              /\ n = 2 => m[1] = [msg |-> "AssistantMessage",
                                  content |-> <<[block |-> "TextBlock",
                                                 text |-> c[1].data.response]>>]

\* The sum over the models of stats.models of the number at group.field, a
\* missing one counting as 0.
RECURSIVE ModelTotal(_, _, _)
ModelTotal(models, group, field) ==
    IF DOMAIN models = {} THEN 0
    ELSE LET name == CHOOSE n \in DOMAIN models : TRUE
             rest == [n \in DOMAIN models \ {name} |-> models[n]]
             mine == IF group \in DOMAIN models[name]
                        /\ field \in DOMAIN models[name][group]
                     THEN models[name][group][field] ELSE 0
         IN  mine + ModelTotal(rest, group, field)
\* The ResultMessage of a single-JSON parse of the object data.
SingleJsonTotals(data, r) ==
    LET stats == Get(data, "stats", JsonObject(EmptyDict)).items
        models == Get(stats, "models", EmptyDict)
        response == Get(data, "response", "")
    IN  /\ r.duration_ms = ModelTotal(models, "api", "totalLatencyMs")
        /\ r.usage.total_tokens = ModelTotal(models, "tokens", "total")
        /\ r.usage.tool_calls = Get(Get(stats, "tools", EmptyDict), "totalCalls", 0)
        /\ Truthy(response) =>
              /\ Len(r.result) = IF Len(response) < 100 THEN Len(response) ELSE 100
              /\ r.result = SubSeq(response, 1, Len(r.result))
\* The counts of a ResultMessage are there and are numbers >= 0.
CountsPresent(r) ==
    /\ r.duration_ms \in Nat
    /\ r.usage # NoUsage
    /\ \A key \in DOMAIN r.usage \ {"models"} : r.usage[key] \in Nat

\* C18, as claimed: the ResultMessage of a single-JSON parse has duration_ms
\* = the sum over stats.models of api.totalLatencyMs, usage.total_tokens =
\* the sum of tokens.total, usage.tool_calls = stats.tools.totalCalls, each
\* missing value counting as 0, and result = the first 100 characters of the
\* response; and in every ResultMessage parse returns, in either mode,
\* duration_ms and every token and tool-call count is present and >= 0.
NumericFieldsSummedAndPresent ==
    (ppc = "returned" /\ ~ret.raised) =>
      LET c == _clean_output(raw_output)
          m == ret.messages
      IN  /\ (c # <<>> /\ IsSingleJson(c)) => SingleJsonTotals(Loads(c), m[Len(m)])
          /\ \A j \in 1..Len(m) : IsResult(m[j]) => CountsPresent(m[j])

\* What a query delivers when it runs alone with the given prompt and
\* options, connect and execute raising what they raised or returning the
\* stdout they returned, and the clock reading what it read.
Alone(me) ==
    IF me.connect # NoFault THEN <<ErrorResult(me.connect)>>
    ELSE <<InitMessage(me.options), UserMessage(me.prompt)>> \o
         (IF me.execute # NoFault THEN <<ErrorResult(me.execute)>>
          ELSE LET r == parse(me.stdout, "", me.now)
               IN  IF r.raised THEN <<ErrorResult(ParsingError)>> ELSE r.messages)

\* C19: under every interleaving of the concurrent queries, no two of them
\* hold the same transport, so disconnect is never invoked on a transport on
\* which the execute of another query is in flight, and what a query has
\* delivered when it ends is what it delivers alone: it depends on its own
\* prompt, options, transport outcomes and clock readings only.
ConcurrentQueriesIndependent ==
    \A q \in Queries :
      /\ \A o \in Queries \ {q} :
           /\ qs[q].transport # 0 => qs[o].transport # qs[q].transport
           /\ (qs[q].pc = "disconnect" /\ qs[o].pc = "execute") =>
                 qs[o].transport # qs[q].transport
      /\ qs[q].pc = "done" => qs[q].yielded = Alone(qs[q])

\* One query awaits disconnect while the execute of the other is in flight;
\* the other, started first, holds the first transport.
DisconnectDuringOtherExecute ==
    /\ qs[1].pc = "disconnect" /\ Len(qs[1].yielded) = 6
    /\ qs[2].pc = "execute" /\ qs[2].transport = 1

\* The lines of a cleaned stream-JSON text that decode to a result or an
\* error event, and the ResultMessages among the messages.
IsResultOrErrorLine(line) ==
    /\ line.head = "brace" /\ line.valid
    /\ Get(line.data, "type", None) \in {"result", "error"}
\* m is the ResultMessage of the result or error event of the line.
ResultOfEvent(line, m) ==
    LET d == line.data
    IN  IF d.type = "result"
        THEN /\ m.subtype = (IF "status" \in DOMAIN d THEN d.status ELSE "success")
             /\ m.is_error = ("status" \in DOMAIN d /\ d.status = "error")
             /\ m.num_turns = 1
        ELSE /\ m.subtype = "error" /\ m.is_error = TRUE
             /\ m.duration_ms = 0 /\ m.num_turns = 0
             /\ m.result = (IF "message" \in DOMAIN d THEN d.message ELSE "Unknown error")

\* C20: in every ResultMessage parse returns, is_error is true exactly when
\* subtype is "error".  In stream-JSON mode the ResultMessages are those of
\* the result and error events, in order: a result event gives subtype = its
\* status (success when it has none), is_error = (status is error) and
\* num_turns 1; an error event gives subtype error, is_error, duration_ms 0,
\* num_turns 0 and result = its message, or "Unknown error" when it has
\* none.  In single-JSON mode the ResultMessage has subtype success and
\* is_error false.
IsErrorIffSubtypeError ==
    (ppc = "returned" /\ ~ret.raised) =>
      LET c == _clean_output(raw_output)
          results == SelectSeq(ret.messages, IsResult)
          events == SelectSeq(StripText(c), IsResultOrErrorLine)
      IN  /\ \A j \in 1..Len(results) :
                results[j].is_error = (results[j].subtype = "error")
          /\ (c # <<>> /\ IsSingleJson(c)) =>
                /\ Len(results) = 1
                /\ results[1].subtype = "success" /\ results[1].is_error = FALSE
          /\ (c # <<>> /\ ~IsSingleJson(c)) =>
                /\ Len(results) = Len(events)
                /\ \A j \in 1..Len(events) : ResultOfEvent(events[j], results[j])

\* A result event with status error, an error event and a result event
\* without status were parsed.
ErrorStatusAndErrorEventParsed ==
    /\ ppc = "returned" /\ raw_output = <<ResultErrorLine, ErrorLine, ResultLine>>
    /\ Len(ret.messages) = 3
    /\ ret.messages[1].is_error /\ ret.messages[1].subtype = "error"
    /\ ret.messages[1].num_turns = 1
    /\ ret.messages[2].is_error /\ ret.messages[2].result = "boom"
    /\ ~ret.messages[3].is_error /\ ret.messages[3].subtype = "success"

====
